---- MODULE Spec2Model ----
\* Verification model of camera.h (class camera): initialize, get_ray and its
\* sampling helpers, ray_colour and the render loop.
\*
\* Reals are fixed-point integers.  Vectors, points and scalar lengths are
\* integers in units of 1/VS; colours and attenuations are integers in units of
\* 1/CS.  The configurations render is run on, and the colours ray_colour
\* meets, are chosen so that every product and quotient the code forms on them
\* is exact at that resolution; rounding of doubles is not modelled.
EXTENDS Integers, Sequences, FiniteSets, TLC

VARIABLES
    cfg,           \* the public Camera Configuration fields (camera.h 14-25)
    cam,           \* the private Derived Camera State fields (camera.h 48-55)
    pc,            \* position of render / of the ray_colour call under study
    initCalls,     \* number of completed initialize() calls
    j, i, sample,  \* the three loop counters of render
    pixel_colour,  \* the accumulator declared at camera.h 35
    r,             \* the ray returned by the latest get_ray
    wargs,         \* arguments of the write_colour call in progress
    out,           \* what has been sent to std::cout: header, then pixels
    sampleSum,     \* sum of the ray_colour results obtained for the current pixel
    sampleCount,   \* number of ray_colour results obtained for the current pixel
    doubleDraws,   \* random_double() calls made so far
    diskDraws,     \* random_in_unit_disk() calls made so far
    stack,         \* ray_colour activation records, innermost last
    ret,           \* value being returned by the innermost finished activation
    hits,          \* world.hit queries made by the ray_colour call under study
    scatters,      \* material scatter calls made by that call
    path,          \* answers the scene and the materials gave, in order
    queries,       \* the t intervals handed to world.hit
    call           \* the arguments of the ray_colour call under study

vars == <<cfg, cam, pc, initCalls, j, i, sample, pixel_colour, r, wargs, out,
          sampleSum, sampleCount, doubleDraws, diskDraws,
          stack, ret, hits, scatters, path, queries, call>>

renderVars == <<cfg, cam, initCalls, j, i, sample, pixel_colour, r, wargs, out,
                sampleSum, sampleCount, doubleDraws, diskDraws>>

rcVars == <<stack, ret, hits, scatters, path, queries, call>>

-----------------------------------------------------------------------------
\* Bounds of the model.

\* render: image_width is 1..MaxWidth, samples_per_pixel 0..MaxSamples and
\* max_depth -1..MaxDepth
MaxWidth == 2
MaxSamples == 2
MaxDepth == 1

\* ray_colour step by step: the depth argument is -1..MaxCallDepth
MaxCallDepth == 2

\* Fixed-point resolutions.  VS carries the denominators 2, 3 and 4 that the
\* viewport arithmetic produces for the widths and heights within the bounds.
VS == 4 * 3

\* unit_vector(...).y() is kept in units of 1/US, truncated towards zero.
US == 1 + 1

\* A colour unit: the background gradient needs 1/(20*US) and every scattering
\* bounce halves once more.
RECURSIVE Pow2(_)
Pow2(n) == IF n <= 0 THEN 1 ELSE 2 * Pow2(n - 1)

CS == 20 * US * Pow2(MaxDepth + MaxCallDepth + 1)

\* int is 32 bits wide.
IntMax == 2147483647
IntMin == -IntMax - 1

-----------------------------------------------------------------------------
\* vec3 arithmetic (vec3.h is used through these operations only).

Abs(x) == IF x < 0 THEN -x ELSE x

Vec(x, y, z) == <<x * VS, y * VS, z * VS>>

VAdd(a, b) == <<a[1] + b[1], a[2] + b[2], a[3] + b[3]>>

VSub(a, b) == <<a[1] - b[1], a[2] - b[2], a[3] - b[3]>>

VNeg(a) == <<-a[1], -a[2], -a[3]>>

\* s * v for a fixed-point scalar s
VScale(s, a) == <<(s * a[1]) \div VS, (s * a[2]) \div VS, (s * a[3]) \div VS>>

\* v / n for an integer (or an integer-valued double) n
VDiv(a, n) == <<a[1] \div n, a[2] \div n, a[3] \div n>>

Cross(a, b) ==
    <<(a[2] * b[3] - a[3] * b[2]) \div VS,
      (a[3] * b[1] - a[1] * b[3]) \div VS,
      (a[1] * b[2] - a[2] * b[1]) \div VS>>

LengthSquared(a) == a[1] * a[1] + a[2] * a[2] + a[3] * a[3]

Length(a) ==
    LET m == Abs(a[1]) + Abs(a[2]) + Abs(a[3])
    IN  CHOOSE k \in 0..m : k * k <= LengthSquared(a) /\ LengthSquared(a) < (k + 1) * (k + 1)

UnitVector(a) ==
    <<(a[1] * VS) \div Length(a), (a[2] * VS) \div Length(a), (a[3] * VS) \div Length(a)>>

\* tan(degrees_to_radians(a) / 2) on the angles the configurations use
TanHalf(a) ==
    CASE a = 90  -> VS
      [] a = 0   -> 0
      [] a = -90 -> -VS

-----------------------------------------------------------------------------
\* colour arithmetic

Black == <<0, 0, 0>>

White == <<CS, CS, CS>>

CAdd(a, b) == <<a[1] + b[1], a[2] + b[2], a[3] + b[3]>>

\* componentwise product of two colours
CMul(a, b) == <<(a[1] * b[1]) \div CS, (a[2] * b[2]) \div CS, (a[3] * b[3]) \div CS>>

CLeq(a, b) == a[1] <= b[1] /\ a[2] <= b[2] /\ a[3] <= b[3]

-----------------------------------------------------------------------------
\* Camera Configuration (camera.h 14-25).  aspect_ratio is the rational
\* aspect_num / aspect_den.

Config(an, ad, w, spp, md, da) ==
    [aspect_num |-> an, aspect_den |-> ad, image_width |-> w,
     samples_per_pixel |-> spp, max_depth |-> md,
     vfov |-> 90, lookfrom |-> Vec(0, 0, -1), lookat |-> Vec(0, 0, 0),
     vup |-> Vec(0, 1, 0), defocus_angle |-> da, focus_dist |-> VS]

AspectRatios == {<<1, 1>>, <<2, 1>>}

DefocusAngles == {-90, 0, 90}

\* The configurations render is run on.  samples_per_pixel = 0 and
\* max_depth = -1 are the invalid ones among them.
RenderConfigs ==
    {Config(a[1], a[2], w, spp, md, da) :
        a \in AspectRatios, w \in 1..MaxWidth, spp \in 0..MaxSamples,
        md \in -1..MaxDepth, da \in DefocusAngles}

\* The Derived Camera State before initialize has run.
NoCam ==
    [image_height |-> 0, center |-> Vec(0, 0, 0), pixel00_loc |-> Vec(0, 0, 0),
     pixel_delta_u |-> Vec(0, 0, 0), pixel_delta_v |-> Vec(0, 0, 0),
     u |-> Vec(0, 0, 0), v |-> Vec(0, 0, 0), w |-> Vec(0, 0, 0),
     defocus_disk_u |-> Vec(0, 0, 0), defocus_disk_v |-> Vec(0, 0, 0)]

-----------------------------------------------------------------------------
\* initialize (camera.h 58-91)

\* Whether image_width / aspect_ratio, truncated, is a value of int.  With
\* w = a * num + b the quotient is a * den + (b * den) \div num.
QuotientFits(w, num, den) ==
    (w \div num) <= (IntMax - ((w % num) * den) \div num) \div den

Quotient(w, num, den) == (w \div num) * den + ((w % num) * den) \div num

\* static_cast<int>(image_width / aspect_ratio): the truncated quotient, and
\* for a quotient no int can hold (undefined behaviour) what the conversion
\* instruction leaves: the most negative int, or the saturated value.
CastToInt(w, num, den) ==
    IF QuotientFits(w, num, den) THEN {Quotient(w, num, den)} ELSE {IntMin, IntMax}

\* camera.h 60
ClampHeight(h) == IF h < 1 THEN 1 ELSE h

\* camera.h 59-60
ImageHeights(c) ==
    {ClampHeight(h) : h \in CastToInt(c.image_width, c.aspect_num, c.aspect_den)}

\* The one element of a one-element set.  {F(x) : x \in {e}} evaluates e once
\* and hands its value to F.
Only(S) == CHOOSE x \in S : TRUE

\* camera.h 71-73: the camera frame basis vectors
Basis(c) ==
    Only({Only({[u |-> u, v |-> Cross(w, u), w |-> w] :
                    u \in {UnitVector(Cross(c.vup, w))}}) :
              w \in {UnitVector(VSub(c.lookfrom, c.lookat))}})

\* camera.h 65-68, 76-77: the vectors along the viewport edges, for the image
\* height h and the basis bs
ViewportEdges(c, h, bs) ==
    LET hh == TanHalf(c.vfov)
        viewport_height == (2 * hh * c.focus_dist) \div VS
        viewport_width == (viewport_height * c.image_width) \div h
    IN  [viewport_u |-> VScale(viewport_width, bs.u),
         viewport_v |-> VScale(viewport_height, VNeg(bs.v))]

\* camera.h 62, 80-90, for the viewport edges vp
Geometry(c, h, bs, vp) ==
    LET center == c.lookfrom
        pixel_delta_u == VDiv(vp.viewport_u, c.image_width)
        pixel_delta_v == VDiv(vp.viewport_v, h)
        viewport_upper_left ==
            VSub(VSub(VSub(center, VScale(c.focus_dist, bs.w)), VDiv(vp.viewport_u, 2)),
                 VDiv(vp.viewport_v, 2))
        defocus_radius == (c.focus_dist * TanHalf(c.defocus_angle)) \div VS
    IN  [image_height |-> h, center |-> center,
         pixel00_loc |-> VAdd(viewport_upper_left, VDiv(VAdd(pixel_delta_u, pixel_delta_v), 2)),
         pixel_delta_u |-> pixel_delta_u, pixel_delta_v |-> pixel_delta_v,
         u |-> bs.u, v |-> bs.v, w |-> bs.w,
         defocus_disk_u |-> VScale(defocus_radius, bs.u),
         defocus_disk_v |-> VScale(defocus_radius, bs.v)]

\* camera.h 62-90, for the image_height h already computed
DerivedState(c, h) ==
    Only({Only({Geometry(c, h, bs, vp) : vp \in {ViewportEdges(c, h, bs)}}) :
              bs \in {Basis(c)}})

Initialize ==
    /\ pc = "start"
    /\ \E h \in ImageHeights(cfg) : cam' = DerivedState(cfg, h)
    /\ initCalls' = initCalls + 1
    /\ pc' = "header"
    /\ UNCHANGED <<cfg, j, i, sample, pixel_colour, r, wargs, out, sampleSum,
                   sampleCount, doubleDraws, diskDraws>>
    /\ UNCHANGED rcVars

-----------------------------------------------------------------------------
\* The shared randomness source (rtweekend.h, vec3.h): the values a draw may give.

\* random_double() lies in [0, 1)
RandomDoubles == {0, VS \div 2}

\* random_in_unit_disk() lies strictly inside the unit disk, z = 0
DiskSamples == {<<0, 0, 0>>, <<VS \div 2, -(VS \div 2), 0>>}

-----------------------------------------------------------------------------
\* get_ray and its helpers (camera.h 93-118).  A ray carries, beside origin and
\* direction, the pixel get_ray was called for (pix), which the code does not
\* store: it records where the ray comes from.

\* camera.h 106-111, for the two draws d1, d2 of random_double()
PixelSampleSquare(d1, d2) ==
    LET px == d1 - VS \div 2
        py == d2 - VS \div 2
    IN  VAdd(VScale(px, cam.pixel_delta_u), VScale(py, cam.pixel_delta_v))

\* camera.h 113-118, for the draw p of random_in_unit_disk()
DefocusDiskSample(p) ==
    VAdd(VAdd(cam.center, VScale(p[1], cam.defocus_disk_u)),
         VScale(p[2], cam.defocus_disk_v))

\* Variant of UsesDefocusDisk: the origin always sampled from the disk.
UsesDefocusDiskAlways == TRUE

\* camera.h 100: whether the origin is sampled from the defocus disk
UsesDefocusDisk == ~(cfg.defocus_angle <= 0)

\* camera.h 97-103
GetRay(pi, pj, d1, d2, p) ==
    LET pixel_center ==
            VAdd(VAdd(cam.pixel00_loc, VScale(pi * VS, cam.pixel_delta_u)),
                 VScale(pj * VS, cam.pixel_delta_v))
        pixel_sample == VAdd(pixel_center, PixelSampleSquare(d1, d2))
        ray_origin == IF UsesDefocusDisk THEN DefocusDiskSample(p) ELSE cam.center
    IN  [orig |-> ray_origin, dir |-> VSub(pixel_sample, ray_origin), pix |-> <<pi, pj>>]

NoRay == [orig |-> Vec(0, 0, 0), dir |-> Vec(0, 0, 0), pix |-> <<-1, -1>>]

-----------------------------------------------------------------------------
\* The scene and its materials (hittable.h, material.h): what world.hit and
\* scatter may answer.  Any answer may follow any ray.

\* attenuations a material may report: (1, 0.5, 0), and 1.5 on every channel
\* (a material that amplifies)
Attenuations ==
    {<<CS, CS \div 2, 0>>, <<(3 * CS) \div 2, (3 * CS) \div 2, (3 * CS) \div 2>>}

\* rays a material may scatter into
ScatteredRays ==
    {[orig |-> Vec(0, 0, 0), dir |-> Vec(0, 1, 0), pix |-> <<-1, -1>>],
     [orig |-> Vec(1, 0, 0), dir |-> Vec(1, -1, 0), pix |-> <<-1, -1>>]}

\* camera.h 127: interval(0.001, infinity)
HitInterval == <<"0.001", "infinity">>

-----------------------------------------------------------------------------
\* ray_colour (camera.h 120-140)

\* unit_vector(d).y() in units of 1/US
UnitY(d) ==
    LET q == CHOOSE k \in 0..US :
                /\ k * k * LengthSquared(d) <= US * US * d[2] * d[2]
                /\ \/ k = US
                   \/ (k + 1) * (k + 1) * LengthSquared(d) > US * US * d[2] * d[2]
    IN  IF d[2] < 0 THEN -q ELSE q

\* camera.h 137-139: (1 - a) * white + a * (0.5, 0.7, 1.0), a = 0.5 * (y + 1)
Background(ray) ==
    LET a == UnitY(ray.dir) + US      \* a in units of 1/(2 * US)
        sky == <<CS \div 2, (7 * CS) \div 10, CS>>
    IN  <<((2 * US - a) * CS + a * sky[1]) \div (2 * US),
          ((2 * US - a) * CS + a * sky[2]) \div (2 * US),
          ((2 * US - a) * CS + a * sky[3]) \div (2 * US)>>

\* Variant of DepthExhausted: the test written depth < 0.
DepthExhaustedStrict(depth) == depth < 0

\* camera.h 124
DepthExhausted(depth) == depth <= 0

\* Variant of NextDepth: the budget handed on undiminished.
NextDepthSame(depth) == depth

\* camera.h 132: the budget handed to the recursive call
NextDepth(depth) == depth - 1

\* Variant of Attenuate: the attenuation left out of the product.
AttenuateDropped(attenuation, inner) == inner

\* camera.h 132: what an activation returns once its recursive call returned
Attenuate(attenuation, inner) == CMul(attenuation, inner)

\* Variant of Absorbed: an absorbed ray coloured white.
AbsorbedWhite == White

\* camera.h 134: the colour of an absorbed ray
Absorbed == Black

\* Every colour ray_colour(ray, depth, world) can return, over all scenes.
RECURSIVE RayColours(_, _)
RayColours(ray, depth) ==
    IF DepthExhausted(depth) THEN {Black}
    ELSE {Background(ray), Absorbed}
         \cup {Attenuate(a, c) :
                 a \in Attenuations,
                 c \in UNION {RayColours(s, NextDepth(depth)) : s \in ScatteredRays}}

-----------------------------------------------------------------------------
\* render (camera.h 27-45), one action per step of its loops.

NoCall == [ray |-> NoRay, depth |-> 0]

NoArgs == [colour |-> Black, samples |-> -1]

\* camera.h 30
Header ==
    /\ pc = "header"
    /\ out' = Append(out, [kind |-> "header", a |-> cfg.image_width, b |-> cam.image_height])
    /\ j' = 0
    /\ pc' = "scanline"
    /\ UNCHANGED <<cfg, cam, initCalls, i, sample, pixel_colour, r, wargs, sampleSum,
                   sampleCount, doubleDraws, diskDraws>>
    /\ UNCHANGED rcVars

\* Variant of Scanline: the loop test written j <= image_height.
ScanlineOffByOne ==
    /\ pc = "scanline"
    /\ IF j <= cam.image_height
       THEN i' = 0 /\ pc' = "pixel"
       ELSE i' = i /\ pc' = "done"
    /\ UNCHANGED <<cfg, cam, initCalls, j, sample, pixel_colour, r, wargs, out, sampleSum,
                   sampleCount, doubleDraws, diskDraws>>
    /\ UNCHANGED rcVars

\* Variant of Scanline: initialize called again at the start of every scanline.
ScanlineReinitializes ==
    /\ pc = "scanline"
    /\ IF j < cam.image_height
       THEN /\ i' = 0
            /\ pc' = "pixel"
            /\ \E h \in ImageHeights(cfg) : cam' = DerivedState(cfg, h)
            /\ initCalls' = initCalls + 1
       ELSE /\ i' = i
            /\ pc' = "done"
            /\ UNCHANGED <<cam, initCalls>>
    /\ UNCHANGED <<cfg, j, sample, pixel_colour, r, wargs, out, sampleSum,
                   sampleCount, doubleDraws, diskDraws>>
    /\ UNCHANGED rcVars

\* camera.h 32-33 and 44: the test of the j loop
Scanline ==
    /\ pc = "scanline"
    /\ IF j < cam.image_height
       THEN i' = 0 /\ pc' = "pixel"
       ELSE i' = i /\ pc' = "done"
    /\ UNCHANGED <<cfg, cam, initCalls, j, sample, pixel_colour, r, wargs, out, sampleSum,
                   sampleCount, doubleDraws, diskDraws>>
    /\ UNCHANGED rcVars

\* Variant of PixelInit: the accumulator carried over from the previous pixel.
PixelInitCarried == pixel_colour

\* camera.h 35: colour pixel_colour(0,0,0)
PixelInit == Black

\* camera.h 34-36: the test of the i loop, and the start of a pixel
Pixel ==
    /\ pc = "pixel"
    /\ IF i < cfg.image_width
       THEN /\ pixel_colour' = PixelInit
            /\ sample' = 0
            /\ sampleSum' = Black
            /\ sampleCount' = 0
            /\ pc' = "sample"
            /\ j' = j
       ELSE /\ j' = j + 1
            /\ pc' = "scanline"
            /\ UNCHANGED <<pixel_colour, sample, sampleSum, sampleCount>>
    /\ UNCHANGED <<cfg, cam, initCalls, i, r, wargs, out, doubleDraws, diskDraws>>
    /\ UNCHANGED rcVars

\* camera.h 36-37: the test of the sample loop passes and get_ray(i, j) runs
Sample ==
    /\ pc = "sample"
    /\ sample < cfg.samples_per_pixel
    /\ \E d1 \in RandomDoubles, d2 \in RandomDoubles, p \in DiskSamples :
          /\ ~UsesDefocusDisk => p = <<0, 0, 0>>
          /\ r' = GetRay(i, j, d1, d2, p)
    /\ doubleDraws' = doubleDraws + 2
    /\ diskDraws' = IF UsesDefocusDisk THEN diskDraws + 1 ELSE diskDraws
    /\ pc' = "colour"
    /\ UNCHANGED <<cfg, cam, initCalls, j, i, sample, pixel_colour, wargs, out,
                   sampleSum, sampleCount>>
    /\ UNCHANGED rcVars

\* camera.h 38: pixel_colour += ray_colour(r, max_depth, world), and ++sample
Accumulate ==
    /\ pc = "colour"
    /\ \E c \in RayColours(r, cfg.max_depth) :
          /\ pixel_colour' = CAdd(pixel_colour, c)
          /\ sampleSum' = CAdd(sampleSum, c)
    /\ sampleCount' = sampleCount + 1
    /\ sample' = sample + 1
    /\ pc' = "sample"
    /\ UNCHANGED <<cfg, cam, initCalls, j, i, r, wargs, out, doubleDraws, diskDraws>>
    /\ UNCHANGED rcVars

\* camera.h 40: the sample loop is over and write_colour is called
WriteCall ==
    /\ pc = "sample"
    /\ ~(sample < cfg.samples_per_pixel)
    /\ wargs' = [colour |-> pixel_colour, samples |-> cfg.samples_per_pixel]
    /\ pc' = "write"
    /\ UNCHANGED <<cfg, cam, initCalls, j, i, sample, pixel_colour, r, out, sampleSum,
                   sampleCount, doubleDraws, diskDraws>>
    /\ UNCHANGED rcVars

\* camera.h 40-41 and 34: write_colour emits the pixel and returns; ++i
WriteReturn ==
    /\ pc = "write"
    /\ out' = Append(out, [kind |-> "pixel", a |-> i, b |-> j])
    /\ wargs' = NoArgs
    /\ i' = i + 1
    /\ pc' = "pixel"
    /\ UNCHANGED <<cfg, cam, initCalls, j, sample, pixel_colour, r, sampleSum,
                   sampleCount, doubleDraws, diskDraws>>
    /\ UNCHANGED rcVars

Init ==
    /\ cfg \in RenderConfigs
    /\ cam = NoCam
    /\ pc = "start"
    /\ initCalls = 0
    /\ j = 0 /\ i = 0 /\ sample = 0
    /\ pixel_colour = Black
    /\ r = NoRay
    /\ wargs = NoArgs
    /\ out = <<>>
    /\ sampleSum = Black /\ sampleCount = 0
    /\ doubleDraws = 0 /\ diskDraws = 0
    /\ stack = <<>>
    /\ ret = [set |-> FALSE, val |-> Black]
    /\ hits = 0 /\ scatters = 0
    /\ path = <<>>
    /\ queries = {}
    /\ call = NoCall

Next ==
    \/ Initialize
    \/ Header
    \/ Scanline
    \/ Pixel
    \/ Sample
    \/ Accumulate
    \/ WriteCall
    \/ WriteReturn

Spec == Init /\ [][Next]_vars

-----------------------------------------------------------------------------
\* ray_colour (camera.h 120-140) step by step: one activation record per call,
\* the scene's and the material's answers chosen freely.

Frame(ray, depth) == [ray |-> ray, depth |-> depth, attenuation |-> Black]

Top == stack[Len(stack)]

Pop == SubSeq(stack, 1, Len(stack) - 1)

AtEntry == pc = "rc_run" /\ stack # <<>> /\ ~ret.set

\* the caller invokes ray_colour(call.ray, call.depth, world)
RcCall ==
    /\ pc = "rc_start"
    /\ stack' = <<Frame(call.ray, call.depth)>>
    /\ pc' = "rc_run"
    /\ UNCHANGED <<ret, hits, scatters, path, queries, call>>
    /\ UNCHANGED renderVars

\* camera.h 124-125
RcExhausted ==
    /\ AtEntry
    /\ DepthExhausted(Top.depth)
    /\ ret' = [set |-> TRUE, val |-> Black]
    /\ stack' = Pop
    /\ UNCHANGED <<pc, hits, scatters, path, queries, call>>
    /\ UNCHANGED renderVars

\* camera.h 127, 137-139: world.hit answers false
RcMiss ==
    /\ AtEntry
    /\ ~DepthExhausted(Top.depth)
    /\ hits' = hits + 1
    /\ queries' = queries \cup {HitInterval}
    /\ path' = Append(path, [kind |-> "miss", attenuation |-> Black, ray |-> NoRay])
    /\ ret' = [set |-> TRUE, val |-> Background(Top.ray)]
    /\ stack' = Pop
    /\ UNCHANGED <<pc, scatters, call>>
    /\ UNCHANGED renderVars

\* camera.h 127-131, 134: world.hit answers true, scatter answers false
RcAbsorb ==
    /\ AtEntry
    /\ ~DepthExhausted(Top.depth)
    /\ hits' = hits + 1
    /\ queries' = queries \cup {HitInterval}
    /\ scatters' = scatters + 1
    /\ path' = Append(path, [kind |-> "absorb", attenuation |-> Black, ray |-> NoRay])
    /\ ret' = [set |-> TRUE, val |-> Absorbed]
    /\ stack' = Pop
    /\ UNCHANGED <<pc, call>>
    /\ UNCHANGED renderVars

\* camera.h 127-132: world.hit answers true, scatter answers true and the
\* recursive call is made
RcScatter ==
    /\ AtEntry
    /\ ~DepthExhausted(Top.depth)
    /\ hits' = hits + 1
    /\ queries' = queries \cup {HitInterval}
    /\ scatters' = scatters + 1
    /\ \E a \in Attenuations, s \in ScatteredRays :
          /\ path' = Append(path, [kind |-> "scatter", attenuation |-> a, ray |-> s])
          /\ stack' = Append([stack EXCEPT ![Len(stack)].attenuation = a],
                             Frame(s, NextDepth(Top.depth)))
    /\ UNCHANGED <<pc, ret, call>>
    /\ UNCHANGED renderVars

\* camera.h 132: the recursive call has returned
RcReturn ==
    /\ pc = "rc_run"
    /\ stack # <<>>
    /\ ret.set
    /\ ret' = [set |-> TRUE, val |-> Attenuate(Top.attenuation, ret.val)]
    /\ stack' = Pop
    /\ UNCHANGED <<pc, hits, scatters, path, queries, call>>
    /\ UNCHANGED renderVars

\* the outermost activation has returned to the caller
RcDone ==
    /\ pc = "rc_run"
    /\ stack = <<>>
    /\ ret.set
    /\ pc' = "rc_done"
    /\ UNCHANGED <<stack, ret, hits, scatters, path, queries, call>>
    /\ UNCHANGED renderVars

\* rays ray_colour is called on
CallRays ==
    ScatteredRays \cup
    {[orig |-> Vec(0, 0, -1), dir |-> Vec(0, -1, 0), pix |-> <<-1, -1>>],
     [orig |-> Vec(0, 0, -1), dir |-> Vec(1, 1, 1), pix |-> <<-1, -1>>]}

InitRC ==
    /\ cfg = Config(1, 1, 1, 1, 0, 0)
    /\ cam = NoCam
    /\ pc = "rc_start"
    /\ initCalls = 0
    /\ j = 0 /\ i = 0 /\ sample = 0
    /\ pixel_colour = Black
    /\ r = NoRay
    /\ wargs = NoArgs
    /\ out = <<>>
    /\ sampleSum = Black /\ sampleCount = 0
    /\ doubleDraws = 0 /\ diskDraws = 0
    /\ stack = <<>>
    /\ ret = [set |-> FALSE, val |-> Black]
    /\ hits = 0 /\ scatters = 0
    /\ path = <<>>
    /\ queries = {}
    /\ call \in [ray : CallRays, depth : -1..MaxCallDepth]

NextRC ==
    \/ RcCall
    \/ RcExhausted
    \/ RcMiss
    \/ RcAbsorb
    \/ RcScatter
    \/ RcReturn
    \/ RcDone

SpecRC == InitRC /\ [][NextRC]_vars

\* A call that has been made and has not returned keeps running.
FairSpecRC == SpecRC /\ WF_vars(NextRC)

\* The result agrees with the set of colours RayColours gives.
RcAgrees == pc = "rc_done" => ret.val \in RayColours(call.ray, call.depth)

-----------------------------------------------------------------------------
\* initialize alone, on a wider range of widths and aspect ratios.

InitWidths == {1, 2, 3, 16, 100, 65536}

InitAspects ==
    {<<1, 1>>, <<2, 1>>, <<16, 9>>, <<1, 2>>, <<3, 2>>, <<5, 1>>, <<1, 32768>>, <<1, 65536>>}

InitConfigs ==
    {Config(a[1], a[2], w, 1, 1, da) :
        a \in InitAspects, w \in InitWidths, da \in DefocusAngles}

InitI ==
    /\ cfg \in InitConfigs
    /\ cam = NoCam
    /\ pc = "start"
    /\ initCalls = 0
    /\ j = 0 /\ i = 0 /\ sample = 0
    /\ pixel_colour = Black
    /\ r = NoRay
    /\ wargs = NoArgs
    /\ out = <<>>
    /\ sampleSum = Black /\ sampleCount = 0
    /\ doubleDraws = 0 /\ diskDraws = 0
    /\ stack = <<>>
    /\ ret = [set |-> FALSE, val |-> Black]
    /\ hits = 0 /\ scatters = 0
    /\ path = <<>>
    /\ queries = {}
    /\ call = NoCall

SpecInit == InitI /\ [][Initialize]_vars

\* render runs to its end once started.
FairSpec == Spec /\ WF_vars(Next)

-----------------------------------------------------------------------------
\* Properties.

\* C1: ray_colour called with depth <= 0 returns black, and does so without
\* asking the scene or a material anything.
C1_DepthExhaustedIsBlack ==
    (pc = "rc_done" /\ call.depth <= 0) =>
        (ret.val = Black /\ hits = 0 /\ scatters = 0 /\ path = <<>>)

C1_Witness == pc = "rc_done" /\ call.depth = 0 /\ ret.val = Black

\* C2: a ray_colour call with depth >= 0 returns, never has more than depth
\* recursive calls open (depth + 1 activations with the outermost one), and
\* makes at most depth world.hit queries and at most depth scatter calls.
C2_Inv ==
    call.depth >= 0 =>
        /\ Len(stack) <= call.depth + 1
        /\ hits <= call.depth
        /\ scatters <= call.depth

\* C2: the bounds of C2_Inv hold throughout, and every ray_colour call with
\* depth >= 0 that is made returns.
C2_BoundedRecursion ==
    /\ []C2_Inv
    /\ (pc = "rc_start" /\ call.depth >= 0) ~> (pc = "rc_done")

C2_Witness ==
    /\ pc = "rc_done"
    /\ call.depth = MaxCallDepth
    /\ hits = call.depth
    /\ scatters = call.depth


\* The first n pixels of an image w wide, in row-major order.
RowMajor(n, w) ==
    [k \in 1..n |-> [kind |-> "pixel", a |-> (k - 1) % w, b |-> (k - 1) \div w]]

\* C3: render emits the header first, then one pixel per write in row-major
\* order, scanlines top to bottom and pixels left to right, none twice and none
\* skipped; it then finishes, with image_width * image_height pixels written.
C3_Inv ==
    /\ pc \in {"start", "header"} => out = <<>>
    /\ pc \notin {"start", "header"} =>
          /\ out[1] = [kind |-> "header", a |-> cfg.image_width, b |-> cam.image_height]
          /\ Tail(out) = RowMajor(Len(out) - 1, cfg.image_width)
          /\ Len(out) - 1 <= cfg.image_width * cam.image_height
          /\ pc \in {"pixel", "sample", "colour", "write"} =>
                Len(out) - 1 = j * cfg.image_width + i
    /\ pc = "done" => Len(out) - 1 = cfg.image_width * cam.image_height

\* C3: the output is always the header followed by a row-major run of pixels
\* (C3_Inv), and render, once started, reaches its end.
C3_RowMajorOutput ==
    /\ []C3_Inv
    /\ (pc = "start") ~> (pc = "done")

C3_Witness ==
    /\ pc = "done"
    /\ cfg.image_width = 2
    /\ cam.image_height = 2
    /\ Len(out) = 5
    /\ out[4] = [kind |-> "pixel", a |-> 0, b |-> 1]

\* C4: what write_colour receives for a pixel is the sum, from zero, of exactly
\* samples_per_pixel ray_colour results, each for a ray get_ray made for that
\* pixel, together with samples_per_pixel as the sample count; nothing of an
\* earlier pixel is in it and it is not handed over before the last sample.
C4_PixelSum ==
    /\ pc = "write" =>
          /\ wargs.colour = sampleSum
          /\ wargs.samples = cfg.samples_per_pixel
          /\ sampleCount = cfg.samples_per_pixel
    /\ pc = "colour" => r.pix = <<i, j>>
    /\ pc \in {"sample", "colour"} =>
          /\ sampleCount = sample
          /\ pixel_colour = sampleSum
          /\ sample <= cfg.samples_per_pixel

C4_Witness ==
    /\ pc = "write"
    /\ Len(out) >= 2
    /\ out[Len(out)].kind = "pixel"
    /\ wargs.samples = 2
    /\ wargs.colour # Black

\* The configurations the Camera Configuration rules out.
InvalidConfig(c) ==
    \/ c.image_width <= 0
    \/ c.aspect_num <= 0
    \/ c.samples_per_pixel <= 0
    \/ c.focus_dist <= 0
    \/ c.max_depth < 0
    \/ c.vfov <= 0
    \/ c.vfov >= 180
    \/ Cross(c.vup, VSub(c.lookfrom, c.lookat)) = <<0, 0, 0>>

\* C5: render on an invalid configuration emits neither header nor pixel.
C5_InvalidConfigRejected == InvalidConfig(cfg) => out = <<>>

\* floor(image_width / aspect_ratio) is the value h
IsFloorOfQuotient(h, c) ==
    /\ QuotientFits(c.image_width, c.aspect_num, c.aspect_den)
    /\ h = Quotient(c.image_width, c.aspect_num, c.aspect_den)

\* C6: with image_width >= 1 and aspect_ratio > 0, after initialize
\* image_height = max(1, floor(image_width / aspect_ratio)), hence >= 1.
C6_ImageHeight ==
    (pc # "start" /\ cfg.image_width >= 1 /\ cfg.aspect_num > 0 /\ cfg.aspect_den > 0) =>
        /\ cam.image_height >= 1
        /\ \/ cam.image_height = 1 /\ IsFloorOfQuotient(0, cfg)
           \/ IsFloorOfQuotient(cam.image_height, cfg)

\* C7: with defocus_angle <= 0 every ray get_ray returns starts at the camera
\* center and random_in_unit_disk is never called; with defocus_angle > 0 the
\* origin is center + p.x * defocus_disk_u + p.y * defocus_disk_v for a disk
\* sample p, one such sample drawn per ray.
C7_PinholeOrigin ==
    /\ cfg.defocus_angle <= 0 =>
          /\ diskDraws = 0
          /\ pc = "colour" => r.orig = cam.center
    /\ cfg.defocus_angle > 0 =>
          /\ 2 * diskDraws = doubleDraws
          /\ pc = "colour" =>
                \E p \in DiskSamples :
                    r.orig = VAdd(VAdd(cam.center, VScale(p[1], cam.defocus_disk_u)),
                                  VScale(p[2], cam.defocus_disk_v))

C7_Witness ==
    /\ pc = "colour"
    /\ cfg.defocus_angle < 0
    /\ cam.defocus_disk_u # <<0, 0, 0>>
    /\ sample = 1
    /\ r.orig = cam.center


\* The scattering answers among the first n answers of the path.
ScatterIndices(n) == {k \in 1..n : k <= Len(path) /\ path[k].kind = "scatter"}

\* Every attenuation reported along the path has all its channels in [0, 1].
AttenuationsWithinUnit ==
    \A k \in ScatterIndices(Len(path)) :
        CLeq(Black, path[k].attenuation) /\ CLeq(path[k].attenuation, White)

\* The componentwise product of the attenuations of the first n answers.
RECURSIVE AttenuationProduct(_)
AttenuationProduct(n) ==
    IF n = 0 THEN White
    ELSE IF path[n].kind = "scatter"
         THEN CMul(AttenuationProduct(n - 1), path[n].attenuation)
         ELSE AttenuationProduct(n - 1)

\* The ray the path ends on: the last scattered ray, or the ray of the call.
LastRay ==
    LET ks == ScatterIndices(Len(path))
    IN  IF ks = {} THEN call.ray
        ELSE path[CHOOSE k \in ks : \A m \in ks : m <= k].ray

\* C8: when every attenuation along the path lies in [0, 1] per channel, the
\* colour ray_colour returns is at most the background of the path's last ray
\* times the product of the attenuations, and is never negative.
C8_Inv ==
    (pc = "rc_done" /\ AttenuationsWithinUnit) =>
        /\ CLeq(Black, ret.val)
        /\ CLeq(ret.val, CMul(AttenuationProduct(Len(path)), Background(LastRay)))

\* C8: under the same condition, the colour an activation returns is per
\* channel at most the colour its recursive call returned: a bounce never adds.
C8_Step ==
    (ret.set /\ ret'.set /\ AttenuationsWithinUnit) => CLeq(ret'.val, ret.val)

\* C8: the returned colour stays under background times attenuation product
\* (C8_Inv) and no bounce increases a channel (C8_Step).
C8_EnergyConservation == []C8_Inv /\ [][C8_Step]_vars

C8_Witness ==
    /\ pc = "rc_done"
    /\ AttenuationsWithinUnit
    /\ ScatterIndices(Len(path)) = {1}
    /\ path[Len(path)].kind = "miss"
    /\ ret.val # Black
    /\ ret.val # Background(LastRay)

\* The explicit loop: an attenuation product acc, a depth counter and the
\* current ray, fed the answers path[k], path[k+1], ...
RECURSIVE PathLoop(_, _, _, _)
PathLoop(acc, depth, ray, k) ==
    IF depth <= 0 THEN Black
    ELSE IF k > Len(path) THEN <<-1, -1, -1>>
    ELSE IF path[k].kind = "miss" THEN CMul(acc, Background(ray))
    ELSE IF path[k].kind = "absorb" THEN CMul(acc, Black)
    ELSE PathLoop(CMul(acc, path[k].attenuation), depth - 1, path[k].ray, k + 1)

\* C9: for depth >= 0 the result of the recursion is the result of the loop:
\* the product of the attenuations of the scattering hits times the background
\* of the last ray on a miss, and black on absorption or exhausted depth; every
\* world.hit query is made with the interval (0.001, infinity).
C9_LoopEquivalence ==
    /\ queries \subseteq {<<"0.001", "infinity">>}
    /\ (pc = "rc_done" /\ call.depth >= 0) =>
          ret.val = PathLoop(White, call.depth, call.ray, 1)

C9_Witness ==
    /\ pc = "rc_done"
    /\ Len(path) = 2
    /\ path[2].kind = "miss"
    /\ ret.val # Black
    /\ ret.val # Background(LastRay)
    /\ queries # {}

\* C10: initialize has run exactly once before get_ray or ray_colour first
\* runs, and afterwards no step of render changes the Derived Camera State or
\* the configuration; get_ray only advances the randomness source.
C10_Inv ==
    /\ pc = "start" => (initCalls = 0 /\ doubleDraws = 0 /\ diskDraws = 0 /\ r = NoRay)
    /\ pc # "start" => initCalls = 1

C10_Step ==
    /\ pc # "start" => cam' = cam
    /\ cfg' = cfg
    /\ (pc = "sample" /\ pc' = "colour") => doubleDraws' > doubleDraws

\* C10: initialize runs once and first (C10_Inv), and after it no step changes
\* the Derived Camera State or the configuration (C10_Step).
C10_DerivedStateFrozen == []C10_Inv /\ [][C10_Step]_vars

C10_Witness ==
    /\ pc = "done"
    /\ initCalls = 1
    /\ cam # NoCam
    /\ doubleDraws >= 4

====
